---- MODULE Spec2Model ----
(***************************************************************************)
(* Model of the in-memory Persistence class (src/index.js).                *)
(*                                                                         *)
(* this.data is a JavaScript array: a sequence of slots, each slot either  *)
(* a hole (an index that has no element) or a record.  list and create are *)
(* plain functions that return an already settled promise.  update,        *)
(* replace and delete are async functions: the call runs this.list(id)     *)
(* synchronously, then suspends at `await`; the rest of the body runs      *)
(* later as a microtask.  The body returns a promise (Promise.resolve(el)   *)
(* or Promise.reject(e)), so the promise the call returned settles two     *)
(* microtasks after the body: the return queues a job that calls `then` on *)
(* the returned promise, and that job queues the reaction that settles the *)
(* promise of the call.  Call to settlement takes three microtasks.        *)
(***************************************************************************)
EXTENDS Integers, Sequences, FiniteSets, TLC

VARIABLES data, queue, promises, last, sinceCreate

vars == <<data, queue, promises, last, sinceCreate>>

(* ------------------------------ bounds -------------------------------- *)

\* number of calls made on the store in one behaviour
MaxCalls == 3
\* ids passed by the caller are 0..MaxId
MaxId == 1
\* number of async calls that may be unsettled at the same time
MaxPending == 1
\* the same two bounds for the caller of SpecBurst
BurstCalls == 7
BurstPending == 3
\* the same two bounds for the caller of SpecLive
LiveCalls == 2
LivePending == 2

(* --------------------------- caller's inputs --------------------------- *)

RX == [valid |-> TRUE, name |-> "x"]
RY == [name |-> "y"]
RA == [a |-> 1, valid |-> TRUE]
RB == [b |-> 2, valid |-> TRUE]
RF == [valid |-> FALSE]

\* the records a caller passes as `data`
Records == <<RX, RY, RA, RB, RF>>

\* the argument `id` left out (JavaScript undefined)
NoId == -1

Ids == 0 .. MaxId

(* ------------------------- JavaScript helpers -------------------------- *)

\* an array index that holds no element
Hole == << >>

\* an array index that holds the record r
Some(r) == << r >>

\* String(i) for an array index i, as used for the keys of a spread array
IdxKey(i) ==
  <<"0", "1", "2", "3", "4", "5", "6", "7", "8", "9">>[i + 1]

\* a test that only asks whether id was passed (id !== undefined)
DefinedId(id) == id # NoId

\* truthiness of the argument id: undefined and 0 are falsy
TruthyId(id) == id # NoId /\ id # 0

\* truthiness of r.valid: an absent field reads undefined, which is falsy
TruthyValid(r) == "valid" \in DOMAIN r /\ r["valid"] = TRUE

\* this.data[id] is an element (not undefined): in range and not a hole
Occupied(d, id) == id >= 0 /\ id < Len(d) /\ d[id + 1] # Hole

\* { ...a, ...b } for two objects
Merge(a, b) ==
  [k \in (DOMAIN a) \cup (DOMAIN b) |-> IF k \in DOMAIN b THEN b[k] ELSE a[k]]

\* { ...d } for the array d: one key per index that holds an element
SpreadArray(d) ==
  LET idx == {i \in 1 .. Len(d) : d[i] # Hole}
      keys == {IdxKey(i - 1) : i \in idx}
  IN  [k \in keys |-> d[(CHOOSE i \in idx : IdxKey(i - 1) = k)][1]]

\* d.push(r)
Push(d, r) == Append(d, Some(r))

RECURSIVE Holes(_)
Holes(n) == IF n <= 0 THEN << >> ELSE <<Hole>> \o Holes(n - 1)

\* d[id] = r : an index at or past the length extends the array with holes
SetAt(d, id, r) ==
  IF id < Len(d)
    THEN [d EXCEPT ![id + 1] = Some(r)]
    ELSE d \o Holes(id - Len(d)) \o <<Some(r)>>

\* d.splice(id, 1) : nothing is removed when id is at or past the length
Splice(d, id) ==
  IF id < Len(d)
    THEN SubSeq(d, 1, id) \o SubSeq(d, id + 2, Len(d))
    ELSE d

(* ------------------------- errors and outcomes ------------------------- *)

NotFound == [message |-> "Resource not found", status |-> 404, data |-> << >>]

InvalidData ==
  [message |-> "Invalid data", status |-> 400,
   data |-> [valid |-> "should be true"]]

\* validate returns null
Null == [message |-> "", status |-> 0, data |-> << >>]

\* a promise fulfilled with a record
FulfilledRecord(r) == [state |-> "fulfilled", kind |-> "record", value |-> r]

\* a promise fulfilled with this.data itself (the live array, not a copy)
FulfilledCollection == [state |-> "fulfilled", kind |-> "collection"]

\* a promise fulfilled with an index
FulfilledId(i) == [state |-> "fulfilled", kind |-> "id", value |-> i]

\* a promise rejected with an error
Rejected(e) == [state |-> "rejected", kind |-> "error", value |-> e]

\* no outcome yet
Pending == [state |-> "pending", kind |-> "none"]

(* --------------------------- the operations ---------------------------- *)

\* a faulty validate: it tests that the field is present, not that it is truthy
ValidatePresence(r) == IF "valid" \in DOMAIN r THEN Null ELSE InvalidData

\* validate(data)
Validate(r) == IF TruthyValid(r) THEN Null ELSE InvalidData

\* list(id): the promise it returns
List(d, id) ==
  IF TruthyId(id)
    THEN IF Occupied(d, id)
           THEN FulfilledRecord(d[id + 1][1])
           ELSE Rejected(NotFound)
    ELSE FulfilledCollection

\* create(data): the array afterwards and the promise returned
Create(d, r) ==
  IF Validate(r) # Null
    THEN [data |-> d, outcome |-> Rejected(Validate(r))]
    ELSE LET d2 == Push(d, r)
         IN  [data |-> d2, outcome |-> FulfilledId(Len(d2) - 1)]

\* the object `el` that `await this.list(id)` yields, as spread by { ...el }:
\* a record, or the array this.data as it is when the body resumes
SpreadEl(d, el) ==
  IF el.kind = "collection" THEN SpreadArray(d) ELSE el.value

\* a faulty update: it stores the merged candidate before it validates it
UpdateBodyWriteFirst(d, el, id, arg) ==
  IF el.state = "rejected"
    THEN [data |-> d, outcome |-> el]
    ELSE LET merged == Merge(SpreadEl(d, el), arg)
             d2 == SetAt(d, id, merged)
         IN  IF Validate(merged) # Null
               THEN [data |-> d2, outcome |-> Rejected(Validate(merged))]
               ELSE [data |-> d2, outcome |-> el]

\* update(id, data) after the await: el is the promise list(id) returned
UpdateBody(d, el, id, arg) ==
  IF el.state = "rejected"
    THEN [data |-> d, outcome |-> el]
    ELSE LET merged == Merge(SpreadEl(d, el), arg)
         IN  IF Validate(merged) # Null
               THEN [data |-> d, outcome |-> Rejected(Validate(merged))]
               ELSE [data |-> SetAt(d, id, merged), outcome |-> el]

\* a faulty replace: it validates the merge of the stored record with data,
\* as update does, and then stores data
ReplaceBodyValidatesMerge(d, el, id, arg) ==
  IF el.state = "rejected"
    THEN [data |-> d, outcome |-> el]
    ELSE IF Validate(Merge(SpreadEl(d, el), arg)) # Null
           THEN [data |-> d, outcome |-> Rejected(InvalidData)]
           ELSE [data |-> SetAt(d, id, arg), outcome |-> el]

\* replace(id, data) after the await
ReplaceBody(d, el, id, arg) ==
  IF el.state = "rejected"
    THEN [data |-> d, outcome |-> el]
    ELSE IF Validate(arg) # Null
           THEN [data |-> d, outcome |-> Rejected(Validate(arg))]
           ELSE [data |-> SetAt(d, id, arg), outcome |-> el]

\* delete(id) after the await
DeleteBody(d, el, id) ==
  IF el.state = "rejected"
    THEN [data |-> d, outcome |-> el]
    ELSE [data |-> Splice(d, id), outcome |-> el]

\* the body of an async call after its await
Body(d, job) ==
  CASE job.op = "update"  -> UpdateBody(d, job.el, job.id, job.arg)
    [] job.op = "replace" -> ReplaceBody(d, job.el, job.id, job.arg)
    [] job.op = "delete"  -> DeleteBody(d, job.el, job.id)

(* ------------------------------ the state ------------------------------ *)

\* data        : this.data
\* queue       : the microtask queue, oldest job first
\* promises    : the state of the promise each call returned, by call number
\* last        : the call whose outcome was decided most recently: its
\*               arguments, this.data when it was called (pre) and just
\*               before its outcome was decided (before), and the outcome
\* sinceCreate : the id the latest successful create returned, or -1 when
\*               there was none or when a delete was called or ran since

NoCall ==
  [call |-> 0, op |-> "none", id |-> NoId, arg |-> << >>,
   pre |-> << >>, before |-> << >>, prev |-> -1, outcome |-> Pending]

\* constructor
Init ==
  /\ data = << >>
  /\ queue = << >>
  /\ promises = << >>
  /\ last = NoCall
  /\ sinceCreate = -1

\* a faulty list: it takes the element it returns out of the array
DoListTaking(id) ==
  /\ LET out == List(data, id)
     IN  /\ promises' = Append(promises, out.state)
         /\ last' = [call |-> Len(promises) + 1, op |-> "list", id |-> id,
                     arg |-> << >>, pre |-> data, before |-> data,
                     prev |-> sinceCreate, outcome |-> out]
         /\ data' = IF out.kind = "record" THEN Splice(data, id) ELSE data
  /\ UNCHANGED <<queue, sinceCreate>>

\* list(id) or list() is called
DoList(id) ==
  /\ LET out == List(data, id)
     IN  /\ promises' = Append(promises, out.state)
         /\ last' = [call |-> Len(promises) + 1, op |-> "list", id |-> id,
                     arg |-> << >>, pre |-> data, before |-> data,
                     prev |-> sinceCreate, outcome |-> out]
  /\ UNCHANGED <<data, queue, sinceCreate>>

\* create(data) is called
DoCreate(r) ==
  /\ LET res == Create(data, r)
     IN  /\ data' = res.data
         /\ promises' = Append(promises, res.outcome.state)
         /\ last' = [call |-> Len(promises) + 1, op |-> "create",
                     id |-> NoId, arg |-> r, pre |-> data,
                     before |-> data, prev |-> sinceCreate,
                     outcome |-> res.outcome]
         /\ sinceCreate' = IF res.outcome.state = "fulfilled"
                             THEN res.outcome.value ELSE sinceCreate
  /\ UNCHANGED queue

\* an async method is called and runs up to its await: list(id) is
\* evaluated and the rest of the body is queued as a microtask
DoAsync(op, id, arg) ==
  /\ promises' = Append(promises, "pending")
  /\ queue' = Append(queue,
       [call |-> Len(promises) + 1, kind |-> "body", op |-> op, id |-> id,
        arg |-> arg, el |-> List(data, id), pre |-> data,
        outcome |-> Pending])
  /\ sinceCreate' = IF op = "delete" THEN -1 ELSE sinceCreate
  /\ UNCHANGED <<data, last>>

\* microtask: the body of the oldest suspended call runs to its return
RunBody ==
  /\ queue # << >>
  /\ Head(queue).kind = "body"
  /\ LET job == Head(queue)
         res == Body(data, job)
     IN  /\ data' = res.data
         /\ queue' = Append(Tail(queue),
                       [job EXCEPT !.kind = "thenable", !.outcome = res.outcome])
         /\ last' = [call |-> job.call, op |-> job.op, id |-> job.id,
                     arg |-> job.arg, pre |-> job.pre, before |-> data,
                     prev |-> sinceCreate, outcome |-> res.outcome]
         /\ sinceCreate' = IF job.op = "delete" THEN -1 ELSE sinceCreate
  /\ UNCHANGED promises

\* microtask: the job queued at the body's `return <promise>` calls `then` on
\* the returned promise; that promise is already settled, so its reaction is
\* queued at once
ResolveThenable ==
  /\ queue # << >>
  /\ Head(queue).kind = "thenable"
  /\ queue' = Append(Tail(queue), [Head(queue) EXCEPT !.kind = "reaction"])
  /\ UNCHANGED <<data, promises, last, sinceCreate>>

\* a faulty settling: the job is dropped and the promise is left pending
SettleDropped ==
  /\ queue # << >>
  /\ Head(queue).kind = "reaction"
  /\ queue' = Tail(queue)
  /\ UNCHANGED <<data, promises, last, sinceCreate>>

\* microtask: the reaction runs and the promise the async call returned
\* settles with the outcome of the promise the body returned
Settle ==
  /\ queue # << >>
  /\ Head(queue).kind = "reaction"
  /\ promises' = [promises EXCEPT ![Head(queue).call] = Head(queue).outcome.state]
  /\ queue' = Tail(queue)
  /\ UNCHANGED <<data, last, sinceCreate>>

(* ----------------- a caller that passes any record and id --------------- *)

CanCall == Len(promises) < MaxCalls

CanCallAsync == CanCall /\ Len(queue) < MaxPending

CallList == CanCall /\ \E id \in Ids \cup {NoId} : DoList(id)

CallCreate == CanCall /\ \E i \in 1 .. Len(Records) : DoCreate(Records[i])

CallUpdate ==
  /\ CanCallAsync
  /\ \E id \in Ids : \E i \in 1 .. Len(Records) : DoAsync("update", id, Records[i])

CallReplace ==
  /\ CanCallAsync
  /\ \E id \in Ids : \E i \in 1 .. Len(Records) : DoAsync("replace", id, Records[i])

CallDelete == CanCallAsync /\ \E id \in Ids : DoAsync("delete", id, << >>)

Next ==
  \/ CallList
  \/ CallCreate
  \/ CallUpdate
  \/ CallReplace
  \/ CallDelete
  \/ RunBody
  \/ ResolveThenable
  \/ Settle

Spec == Init /\ [][Next]_vars

(* ---- the same caller with fewer calls, and an engine that keeps running -- *)

LiveCanCall == Len(promises) < LiveCalls

LiveCanCallAsync == LiveCanCall /\ Len(queue) < LivePending

LiveList == LiveCanCall /\ \E id \in Ids \cup {NoId} : DoList(id)

LiveCreate == LiveCanCall /\ \E i \in 1 .. Len(Records) : DoCreate(Records[i])

LiveUpdate ==
  /\ LiveCanCallAsync
  /\ \E id \in Ids : \E i \in 1 .. Len(Records) : DoAsync("update", id, Records[i])

LiveReplace ==
  /\ LiveCanCallAsync
  /\ \E id \in Ids : \E i \in 1 .. Len(Records) : DoAsync("replace", id, Records[i])

LiveDelete == LiveCanCallAsync /\ \E id \in Ids : DoAsync("delete", id, << >>)

NextLive ==
  \/ LiveList
  \/ LiveCreate
  \/ LiveUpdate
  \/ LiveReplace
  \/ LiveDelete
  \/ RunBody
  \/ ResolveThenable
  \/ Settle

\* the engine runs every queued microtask: the queue always drains
SpecLive ==
  /\ Init /\ [][NextLive]_vars
  /\ WF_vars(RunBody) /\ WF_vars(ResolveThenable) /\ WF_vars(Settle)

(* ------- a caller that stores valid records and fires calls in bursts --- *)

BurstCanCall == Len(promises) < BurstCalls

BurstCanCallAsync == BurstCanCall /\ Len(queue) < BurstPending

BurstCreate == BurstCanCall /\ DoCreate(RA)

BurstUpdate == BurstCanCallAsync /\ \E id \in Ids : DoAsync("update", id, RB)

BurstDelete == BurstCanCallAsync /\ \E id \in Ids : DoAsync("delete", id, << >>)

NextBurst ==
  \/ BurstCreate
  \/ BurstUpdate
  \/ BurstDelete
  \/ RunBody
  \/ ResolveThenable
  \/ Settle

SpecBurst == Init /\ [][NextBurst]_vars

(* ------------------------- vocabulary of the claims -------------------- *)

IsAsync(op) == op \in {"update", "replace", "delete"}

\* the latest decided call ran its body on the collection its lookup saw
\* (always so when the caller awaits each call before making the next)
Undisturbed == last.before = last.pre

\* the record stored at index id of d
RecordAt(d, id) == d[id + 1][1]

IsNotFound(o) ==
  /\ o.state = "rejected"
  /\ o.value.status = 404
  /\ o.value.data = << >>

IsInvalidData(o) ==
  /\ o.state = "rejected"
  /\ o.value.status = 400
  /\ o.value.data = [valid |-> "should be true"]

RXY == [valid |-> TRUE, name |-> "y"]

(* -------------------------------- claims ------------------------------- *)

\* C1: whenever create(r) was called with r.valid truthy, in any state of the
\* store, it fulfilled with an id, and list(id) called right afterwards with
\* that id fulfills with r.
C1_CreateThenList ==
  (last.op = "create" /\ TruthyValid(last.arg)) =>
    /\ last.outcome.state = "fulfilled"
    /\ last.outcome.kind = "id"
    /\ List(data, last.outcome.value).kind = "record"
    /\ List(data, last.outcome.value).value = last.arg

\* C2: list(id), update(id, data), replace(id, data) and delete(id) called
\* with a non-negative id at or past the length of the collection reject with
\* NotFound (status 404, payload {}).
C2_UnoccupiedIsNotFound ==
  (/\ last.op \in {"list", "update", "replace", "delete"}
   /\ last.id # NoId
   /\ last.id >= Len(last.pre)) =>
    IsNotFound(last.outcome)

\* C3: an update, replace or delete that went on to mutate the collection
\* mutated the very collection its lookup had seen: no other call changed
\* this.data between its list(id) and its write or splice.
C3_CheckThenMutateAtomic ==
  (IsAsync(last.op) /\ last.outcome.state = "fulfilled") =>
    last.before = last.pre

\* C4: the end-to-end scenario.  On a new store create({valid, name x})
\* returns 0 and list() returns the collection [{valid, name x}]; then
\* update(0, {name y}) fulfills with {valid, name x} and leaves
\* {valid, name y} at index 0; then delete(0) fulfills with {valid, name y}
\* and leaves the collection empty.
C4_EndToEnd ==
  /\ (last.op = "create" /\ last.pre = << >> /\ last.arg = RX) =>
       (last.outcome = FulfilledId(0) /\ data = <<Some(RX)>>)
  /\ (last.op = "list" /\ last.id = NoId) =>
       last.outcome = FulfilledCollection
  /\ (/\ last.op = "update" /\ last.id = 0 /\ last.arg = RY
      /\ Undisturbed /\ last.pre = <<Some(RX)>>) =>
       (/\ last.outcome.state = "fulfilled"
        /\ last.outcome.kind = "record"
        /\ last.outcome.value = RX
        /\ data = <<Some(RXY)>>)
  /\ (/\ last.op = "delete" /\ last.id = 0
      /\ Undisturbed /\ last.pre = <<Some(RXY)>>) =>
       (/\ last.outcome.state = "fulfilled"
        /\ last.outcome.kind = "record"
        /\ last.outcome.value = RXY
        /\ data = << >>)

\* C5: create(r) with r.valid falsy or absent rejects with InvalidData
\* (status 400, payload {valid: "should be true"}) and leaves the collection
\* as it was before the call.
C5_InvalidCreateRejected ==
  (last.op = "create" /\ ~TruthyValid(last.arg)) =>
    /\ IsInvalidData(last.outcome)
    /\ data = last.pre

\* a rejected create on a collection that holds a record
C5_Witness ==
  /\ last.op = "create"
  /\ last.arg = RF
  /\ last.outcome.state = "rejected"
  /\ Len(data) >= 1

\* a create that fulfills on a collection of length n returns n and leaves a
\* collection of length n + 1 with r at index n and indices 0..n-1 as they were
CreateAppendsAtEnd ==
  (last.op = "create" /\ last.outcome.state = "fulfilled") =>
    LET n == Len(last.pre)
    IN  /\ last.outcome.kind = "id"
        /\ last.outcome.value = n
        /\ Len(data) = n + 1
        /\ data[n + 1] = Some(last.arg)
        /\ \A j \in 1 .. n : data[j] = last.pre[j]

\* a create that fulfills after another create that fulfilled, with no delete
\* called or run in between, returns the previous id plus one
ConsecutiveCreateIds ==
  (last.op = "create" /\ last.outcome.state = "fulfilled" /\ last.prev >= 0) =>
    last.outcome.value = last.prev + 1

\* C6: a create that fulfills on a collection of length n returns n, leaves a
\* collection of length n + 1 with r at index n and indices 0..n-1 as they
\* were; hence two successful creates in a row with no delete in between
\* return consecutive ids.
C6_CreateAppends == CreateAppendsAtEnd /\ ConsecutiveCreateIds

\* C7: update(id, data) on an occupied id, when the stored record overlaid
\* with data has a truthy valid, fulfills with the record stored before and
\* leaves at id exactly the merge: data's fields with data's values, the
\* other fields of the previous record, and nothing else.
C7_UpdateMerges ==
  (/\ last.op = "update"
   /\ Undisturbed
   /\ Occupied(last.pre, last.id)
   /\ TruthyValid(Merge(RecordAt(last.pre, last.id), last.arg))) =>
    LET old == RecordAt(last.pre, last.id)
    IN  /\ last.outcome.state = "fulfilled"
        /\ last.outcome.kind = "record"
        /\ last.outcome.value = old
        /\ Occupied(data, last.id)
        /\ DOMAIN RecordAt(data, last.id) = DOMAIN old \cup DOMAIN last.arg
        /\ \A k \in DOMAIN last.arg : RecordAt(data, last.id)[k] = last.arg[k]
        /\ \A k \in DOMAIN old \ DOMAIN last.arg :
             RecordAt(data, last.id)[k] = old[k]

\* C8: replace(id, data) on an occupied id with data.valid truthy fulfills
\* with the record stored before and leaves exactly data at id; with
\* data.valid falsy or absent it rejects with InvalidData, whatever the
\* stored record is.
C8_ReplaceVerbatim ==
  (/\ last.op = "replace"
   /\ Undisturbed
   /\ Occupied(last.pre, last.id)) =>
    IF TruthyValid(last.arg)
      THEN /\ last.outcome.state = "fulfilled"
           /\ last.outcome.kind = "record"
           /\ last.outcome.value = RecordAt(last.pre, last.id)
           /\ data[last.id + 1] = Some(last.arg)
      ELSE IsInvalidData(last.outcome)

\* C9: delete(id) on an occupied id of a collection of length n fulfills with
\* the record that was stored at id; afterwards the length is n - 1, indices
\* below id are as they were, every index j >= id holds what j + 1 held, and
\* list(n - 1) rejects with NotFound.
C9_DeleteShifts ==
  (/\ last.op = "delete"
   /\ Undisturbed
   /\ Occupied(last.pre, last.id)) =>
    LET n == Len(last.pre)
    IN  /\ last.outcome.state = "fulfilled"
        /\ last.outcome.kind = "record"
        /\ last.outcome.value = RecordAt(last.pre, last.id)
        /\ Len(data) = n - 1
        /\ \A j \in 1 .. last.id : data[j] = last.pre[j]
        /\ \A j \in last.id + 1 .. n - 1 : data[j] = last.pre[j + 1]
        /\ IsNotFound(List(data, n - 1))

\* C10: an update, replace or delete that rejects has not changed the
\* collection: this.data is what it was just before the call's outcome was
\* decided, which is what it was when the call was made unless another call
\* changed it meanwhile.
C10_RejectedLeavesCollection ==
  (IsAsync(last.op) /\ last.outcome.state = "rejected") =>
    /\ data = last.before
    /\ Undisturbed => data = last.pre

\* an update of a stored valid record rejected for its invalid merge
C10_Witness ==
  /\ last.op = "update"
  /\ last.id >= 1
  /\ Occupied(last.pre, last.id)
  /\ TruthyValid(RecordAt(last.pre, last.id))
  /\ Undisturbed
  /\ IsInvalidData(last.outcome)

\* C11: list() and list(0) always fulfill, and with this.data itself (the
\* whole collection in its current order, empty for an empty store), never
\* with the single element at index 0 and never with a rejection.
C11_FalsyIdListsAll ==
  (last.op = "list" /\ last.id \in {NoId, 0}) =>
    /\ last.outcome.state = "fulfilled"
    /\ last.outcome.kind = "collection"
    /\ data = last.pre

\* list(0) on a collection that holds a record at index 0
C11_Witness ==
  /\ last.op = "list"
  /\ last.id = 0
  /\ Occupied(data, 0)
  /\ last.outcome.kind = "collection"

\* C12: a list call leaves the collection as it was, and a second list call
\* with the same id, made before any mutation takes effect, has the same
\* outcome: the same record, the collection, or the same NotFound error.
C12_ListIsPureRead ==
  (last.op = "list") =>
    /\ data = last.pre
    /\ List(data, last.id) = last.outcome

\* list(id) that returned the record stored at an id >= 1
C12_Witness ==
  /\ last.op = "list"
  /\ last.id >= 1
  /\ last.outcome.kind = "record"
  /\ Len(data) >= 2

\* a promise that has settled keeps its state
SettlesOnce ==
  [][\A k \in 1 .. Len(promises) :
       promises[k] # "pending" => promises'[k] = promises[k]]_vars

\* a rejection carries NotFound (404) or InvalidData (400), nothing else
RejectsWithKnownError ==
  (last.outcome.state = "rejected") =>
    \/ last.outcome.value.status = 404 /\ last.outcome.value = NotFound
    \/ last.outcome.value.status = 400 /\ last.outcome.value = InvalidData

\* every promise returned so far is fulfilled or rejected
AllSettled ==
  \A k \in 1 .. Len(promises) : promises[k] \in {"fulfilled", "rejected"}

\* again and again every promise returned so far is settled: as a settled
\* promise keeps its state, each call's promise is eventually settled for good
NoPromisePendingForever == []<>AllSettled

\* C13: every call of list, create, update, replace or delete settles, and
\* settles once: its promise becomes fulfilled or rejected and then keeps
\* that state; a rejection carries NotFound (404) or InvalidData (400); no
\* promise stays pending forever, also while other calls are pending.
C13_EveryCallSettlesOnce ==
  /\ []RejectsWithKnownError
  /\ SettlesOnce
  /\ NoPromisePendingForever

\* an async call has settled with a rejection while a later one is pending
C13_Witness ==
  /\ Len(promises) = 2
  /\ promises[1] = "rejected"
  /\ promises[2] = "pending"
  /\ queue # << >>
  /\ last.call = 1
  /\ IsAsync(last.op)

\* C14: update(id, data) and replace(id, data) look the id up before they
\* validate: with an id that is not occupied and data that is invalid they
\* reject with the NotFound error of list (404, {}), never with InvalidData.
C14_LookupBeforeValidation ==
  (/\ last.op \in {"update", "replace"}
   /\ ~Occupied(last.pre, last.id)
   /\ ~TruthyValid(last.arg)) =>
    /\ IsNotFound(last.outcome)
    /\ last.outcome.value = NotFound

\* C15: the length of the collection changes only by +1 on a create that
\* fulfills and by -1 on a delete that fulfills (so it equals the number of
\* successful creates minus the number of successful deletes): list, a
\* rejected call, update and replace leave it as it is, and a delete that
\* fulfills removes exactly one record.
C15_LengthFollowsCreatesAndDeletes ==
  LET before == Len(last.before)
      ok == last.outcome.state = "fulfilled"
  IN  /\ (last.op = "create" /\ ok) => Len(data) = before + 1
      /\ (last.op = "delete" /\ ok) => Len(data) = before - 1
      /\ (last.op \in {"update", "replace", "list"}) => Len(data) = before
      /\ (last.op # "none" /\ ~ok) => Len(data) = before

\* C16: every record held in the collection passes validate: its valid field
\* is truthy, whatever calls were made and however they interleaved.
C16_StoredRecordsAreValid ==
  \A i \in 1 .. Len(data) :
    data[i] # Hole => (TruthyValid(data[i][1]) /\ Validate(data[i][1]) = Null)

\* a record stored by an update or a replace whose body ran after another
\* call had changed the collection, following a rejected invalid attempt
C16_Witness ==
  /\ last.op \in {"update", "replace"}
  /\ last.outcome.state = "fulfilled"
  /\ last.before # last.pre
  /\ Len(data) >= 1
  /\ \E k \in 1 .. Len(promises) : promises[k] = "rejected"

\* every index below the length holds a record: the array has no hole
DenseCollection == \A i \in 1 .. Len(data) : data[i] # Hole

\* no update or replace writes at an index at or past the current length
WritesWithinLength ==
  (last.op \in {"update", "replace"} /\ last.outcome.state = "fulfilled") =>
    last.id < Len(last.before)

\* C17: the collection is always a dense sequence, also when update, replace
\* and delete calls are made without awaiting one another: every index from
\* 0 to length-1 holds a record.  (The claim adds that no write lands at or
\* past the current length, WritesWithinLength, which fails as well.)
C17_CollectionIsDense == DenseCollection

\* C18: an update or replace that fulfills changes index id only: the length
\* of the collection and the record at every other index are what they were
\* just before the write.
C18_WriteChangesOnlyItsIndex ==
  (last.op \in {"update", "replace"} /\ last.outcome.state = "fulfilled") =>
    /\ Len(data) = Len(last.before)
    /\ \A j \in 1 .. Len(data) : j # last.id + 1 => data[j] = last.before[j]

====
